---- MODULE Spec2Model ----
(***************************************************************************)
(* A model of backtab's data_repo.py: the transaction builders, the git    *)
(* commit protocol, the instance ledger allocator and the RepoData engine. *)
(* Money is counted in cents; the inputs of parse_price are counted in     *)
(* thousandths so that its rounding is visible.                            *)
(***************************************************************************)
EXTENDS Integers, Sequences, FiniteSets, TLC

\* ------------------------------------------------------------------ bounds
MaxItems == 2
MaxTxns == 2
MaxClock == 1
MaxRev == 1
MaxLoads == 2

\* ---------------------------------------------------------------- accounts
CASH_ACCT == <<"Assets", "Cash", "Bar">>
INCOME_ACCT == <<"Income", "Bar">>
INVENTORY_ACCT == <<"Assets", "Inventory", "Bar">>
MEMBERS_PARENT == <<"Liabilities", "Bar", "Members">>

MemberAcct(n) == MEMBERS_PARENT \o <<n>>
Alice == MemberAcct("alice")
Bob == MemberAcct("bob")
Currencies == {"EUR", "BEER", "MATE"}

\* parse_price: Decimal(x).quantize(Decimal('0.00'), ROUND_HALF_EVEN).
\* The argument is in thousandths, the result in cents.
parse_price(m) ==
    LET q == m \div 10
        r == m % 10
    IN  IF r < 5 THEN q
        ELSE IF r > 5 THEN q + 1
        ELSE IF q % 2 = 0 THEN q ELSE q + 1

\* Member.__init__: the internal name of an account, or a ValueError.
MemberInit(account) ==
    IF account = CASH_ACCT
    THEN [exc |-> "none", account |-> account, internal_name |-> "--cash--"]
    ELSE IF Len(account) # 4
    THEN [exc |-> "ValueError", account |-> account, internal_name |-> ""]
    ELSE [exc |-> "none", account |-> account, internal_name |-> account[Len(account)]]

\* Product.__init__: the attribute payback is assigned only when the
\* definition has a payback entry; otherwise the object has no such attribute.
ProductInit(definition) ==
    IF "payback" \in DOMAIN definition
    THEN [name |-> definition.name,
          currency |-> definition.currency,
          price |-> parse_price(definition.price),
          payback |-> [account |-> definition.payback.account,
                       amount |-> parse_price(definition.payback.amount)]]
    ELSE [name |-> definition.name,
          currency |-> definition.currency,
          price |-> parse_price(definition.price)]

\* bcdata.create_simple_posting appends one posting to the transaction.
create_simple_posting(postings, account, number, currency) ==
    Append(postings, [account |-> account, number |-> number, currency |-> currency])

\* paybacks[account] += amount on a defaultdict that keeps insertion order.
RECURSIVE AddPayback(_, _, _)
AddPayback(paybacks, account, amount) ==
    IF paybacks = << >> THEN << [account |-> account, amount |-> amount] >>
    ELSE IF Head(paybacks).account = account
    THEN << [account |-> account, amount |-> Head(paybacks).amount + amount] >>
             \o Tail(paybacks)
    ELSE << Head(paybacks) >> \o AddPayback(Tail(paybacks), account, amount)

\* The first loop of BuyTxn.__init__ (lines 151-162) over the items from k on.
\* Reading product.payback of a product without the attribute raises.
RECURSIVE BuyLoop(_, _, _, _)
BuyLoop(buyer, items, k, acc) ==
    IF k > Len(items) THEN acc
    ELSE
      LET product == items[k][1]
          qty == items[k][2]
      IN  IF "payback" \notin DOMAIN product
          THEN [acc EXCEPT !.exc = "AttributeError"]
          ELSE
            LET p1 == create_simple_posting(acc.postings, INVENTORY_ACCT,
                                            -qty, product.currency)
                p2 == create_simple_posting(p1, buyer, qty, product.currency)
            IN  BuyLoop(buyer, items, k + 1,
                   [exc |-> "none",
                    charge |-> acc.charge + product.price * qty,
                    paybacks |-> AddPayback(acc.paybacks, product.payback.account,
                                            product.payback.amount * qty),
                    postings |-> p2])

\* The second loop of BuyTxn.__init__ (lines 167-172).
RECURSIVE PaybackLoop(_, _, _)
PaybackLoop(paybacks, k, acc) ==
    IF k > Len(paybacks) THEN acc
    ELSE PaybackLoop(paybacks, k + 1,
            [charge |-> acc.charge - paybacks[k].amount,
             postings |-> create_simple_posting(acc.postings, paybacks[k].account,
                                                -paybacks[k].amount, "EUR")])

\* BuyTxn.__init__ charging the buyer the amount net of the paybacks.
BuyTxnNet(buyer, items) ==
    LET l1 == BuyLoop(buyer, items, 1,
                 [exc |-> "none", charge |-> 0, paybacks |-> << >>, postings |-> << >>])
    IN  IF l1.exc # "none"
        THEN [exc |-> l1.exc, type |-> "purchase", postings |-> << >>]
        ELSE
          LET l2 == PaybackLoop(l1.paybacks, 1,
                       [charge |-> l1.charge,
                        postings |-> create_simple_posting(l1.postings, buyer, 0, "EUR")])
              p3 == [l2.postings EXCEPT ![2 * Len(items) + 1].number = l2.charge]
          IN  [exc |-> "none", type |-> "purchase",
               postings |-> create_simple_posting(p3, INCOME_ACCT, -l2.charge, "EUR")]

\* BuyTxn.__init__: buyer is the buyer's account, items a sequence of
\* <<Product, quantity>>.
BuyTxn(buyer, items) ==
    LET l1 == BuyLoop(buyer, items, 1,
                 [exc |-> "none", charge |-> 0, paybacks |-> << >>, postings |-> << >>])
    IN  IF l1.exc # "none"
        THEN [exc |-> l1.exc, type |-> "purchase", postings |-> << >>]
        ELSE
          LET p3 == create_simple_posting(l1.postings, buyer, l1.charge, "EUR")
              l2 == PaybackLoop(l1.paybacks, 1, [charge |-> l1.charge, postings |-> p3])
          IN  [exc |-> "none", type |-> "purchase",
               postings |-> create_simple_posting(l2.postings, INCOME_ACCT,
                                                  -l2.charge, "EUR")]

\* TransferTxn.__init__
TransferTxn(payer, payee, amount) ==
    [exc |-> "none", type |-> "transfer",
     postings |-> create_simple_posting(
                     create_simple_posting(<< >>, payer, -amount, "EUR"),
                     payee, amount, "EUR")]

\* DepositTxn.__init__ with the signs of its two postings exchanged.
DepositTxnSwapped(member, amount) ==
    [exc |-> "none", type |-> "deposit",
     postings |-> create_simple_posting(
                     create_simple_posting(<< >>, member, amount, "EUR"),
                     CASH_ACCT, -amount, "EUR")]

\* DepositTxn.__init__
DepositTxn(member, amount) ==
    [exc |-> "none", type |-> "deposit",
     postings |-> create_simple_posting(
                     create_simple_posting(<< >>, member, -amount, "EUR"),
                     CASH_ACCT, amount, "EUR")]

\* bcinterp.compute_residual: the sum of the postings per currency.
RECURSIVE SumOf(_, _, _)
SumOf(postings, account, cur) ==
    IF postings = << >> THEN 0
    ELSE (IF Head(postings).currency = cur
             /\ (account = << >> \/ Head(postings).account = account)
          THEN Head(postings).number ELSE 0)
         + SumOf(Tail(postings), account, cur)

compute_residual(postings) == [c \in Currencies |-> SumOf(postings, << >>, c)]

\* residual.is_small(tolerances): amounts carry at most two decimals, for
\* which the inferred tolerance is half a cent, so only zero is small.
is_small(residual) == \A c \in Currencies : residual[c] = 0


\* ------------------------------------------------------------ the catalog
\* Raw product definitions of static/products.yml (prices in thousandths).
BeerDef == [name |-> "Beer", currency |-> "BEER", price |-> 3500]
MateDef == [name |-> "Mate", currency |-> "MATE", price |-> 2000,
            payback |-> [account |-> Bob, amount |-> 500]]

\* What yaml.load returns for the catalog file of a revision.
RawCatalog(kind) ==
    CASE kind = "ok"      -> [islist |-> TRUE, items |-> << BeerDef, MateDef >>]
      [] kind = "dup"     -> [islist |-> TRUE, items |-> << BeerDef, MateDef, BeerDef >>]
      [] kind = "notlist" -> [islist |-> FALSE, items |-> << >>]

\* The revisions other hosts may publish: the catalog, whether the committed
\* ledger parses, the accounts it opens and the accounts it has postings for.
\* No revision holds an instance ledger or an include line of this engine.
Content(tag) ==
    LET good == [catalog |-> "ok", ledger_errors |-> FALSE,
                 opens |-> {CASH_ACCT, Alice, Bob, INCOME_ACCT},
                 posted |-> {CASH_ACCT, Alice, INCOME_ACCT},
                 includes |-> {}, txns |-> {}]
    IN  CASE tag = "good"    -> good
          [] tag = "dup"     -> [good EXCEPT !.catalog = "dup"]
          [] tag = "notlist" -> [good EXCEPT !.catalog = "notlist"]
          [] tag = "errors"  -> [good EXCEPT !.ledger_errors = TRUE]
          [] tag = "nocash"  -> [good EXCEPT !.posted = {Alice, INCOME_ACCT}]
RevTags == {"good", "dup", "notlist", "errors", "nocash"}

\* ------------------------------------------------------------------ state
Threads == {1, 2}
Engines == {1, 2}
Hostname == "bar"

None == << >>
NoHandle == [open |-> FALSE, stale |-> FALSE, buf |-> << >>]
NewHandle == [open |-> TRUE, stale |-> FALSE, buf |-> << >>]
Unlocked == [owner |-> 0, depth |-> 0]

VARIABLES
    revs,                  \* the remote history: revs[r] is the tag of revision r
    head,                  \* the revision of the local HEAD
    ledger_files,          \* ledger/<name> in the working tree: name -> text
    dynamic,               \* the include lines of ledger/dynamic.beancount
    staged,                \* the instance ledgers that are in the git index
    now,                   \* the clock that names instance ledgers
    repo_lock,             \* the process-wide RLock
    instance_ledger_name,  \* RepoData.instance_ledger_name, per engine
    instance_ledger,       \* RepoData.instance_ledger, per engine
    accounts_raw,          \* RepoData.accounts_raw: the load it refers to (0: unset)
    accounts,              \* RepoData.accounts
    products,              \* RepoData.products
    objs,                  \* the objects of each load still referred to
    nloads,                \* the number of loads built so far
    ntxns,                 \* the number of transactions handed to apply_txn
    folded,                \* the ids of the transactions folded into a Member
    network,               \* whether a push or a pull can fail on its way
    th                     \* per thread: its position and its locals

repoVars == << revs, head, ledger_files, dynamic, staged >>
selfVars == << instance_ledger_name, instance_ledger >>
dirVars == << accounts_raw, accounts, products, objs, nloads >>
vars == << revs, head, ledger_files, dynamic, staged, now, repo_lock,
           instance_ledger_name, instance_ledger, accounts_raw, accounts,
           products, objs, nloads, ntxns, folded, network, th >>

NoTxn == [id |-> 0, type |-> "none", postings |-> << >>]
NoArg == [kind |-> "none", member |-> None, other |-> None, amount |-> 0,
          items |-> << >>]
NoLoad == [exc |-> "none", members |-> << >>, products |-> << >>]
NoSnap == [head |-> 0, accounts_raw |-> 0, accounts |-> 0, products |-> 0,
           objs |-> << >>, name |-> None, files |-> << >>, dynamic |-> {}]

IdleThread(e) ==
    [self |-> e, pc |-> "idle", op |-> "none", exc |-> "none", txn |-> NoTxn,
     head0 |-> 0, i |-> 0, trial |-> None, nested |-> FALSE, new |-> NoLoad,
     snap |-> NoSnap, arg |-> NoArg, at |-> "none"]

\* RepoData.__init__ in a fresh clone of the repository.
InitEngine ==
    /\ revs = << "good" >>
    /\ head = 1
    /\ ledger_files = << >>
    /\ dynamic = {}
    /\ staged = {}
    /\ now = 0
    /\ repo_lock = Unlocked
    /\ instance_ledger_name = [e \in Engines |-> None]
    /\ instance_ledger = [e \in Engines |-> NoHandle]
    /\ accounts_raw = [e \in Engines |-> 0]
    /\ accounts = [e \in Engines |-> 0]
    /\ products = [e \in Engines |-> 0]
    /\ objs = << >>
    /\ nloads = 0
    /\ ntxns = 0
    /\ folded = {}

Init ==
    /\ InitEngine
    /\ network = "lossy"
    /\ th = [t \in Threads |-> IdleThread(1)]


\* ---------------------------------------------------------------- helpers
Me(t) == th[t].self
Range(f) == {f[x] : x \in DOMAIN f}
Parent(account) == SubSeq(account, 1, Len(account) - 1)

\* The state an operation starts from, kept to compare with its outcome.
Snap(e) ==
    [head |-> head, accounts_raw |-> accounts_raw[e], accounts |-> accounts[e],
     products |-> products[e], objs |-> objs, name |-> instance_ledger_name[e],
     files |-> ledger_files, dynamic |-> dynamic]

\* with repo_lock: (re-entrant)
CanAcquire(t) == repo_lock.owner \in {0, t}
Acquire(t) == [owner |-> t, depth |-> repo_lock.depth + 1]
Release(t) ==
    IF repo_lock.owner # t THEN repo_lock
    ELSE IF repo_lock.depth = 1 THEN Unlocked
    ELSE [repo_lock EXCEPT !.depth = @ - 1]
\* An exception leaving the outermost call releases every level the thread holds.
Unwind(t) == IF repo_lock.owner = t THEN Unlocked ELSE repo_lock

\* The outermost call ends: normally (exc = "none") or by raising exc.
Finish(r, exc) == [r EXCEPT !.pc = "done", !.exc = exc, !.nested = FALSE]
\* The call ends by raising exc at the named step.
Raise(r, exc, at) == [Finish(r, exc) EXCEPT !.at = at]
\* An exception inside a git_transaction block goes to its except clause.
Rollback(r, exc, at) == [r EXCEPT !.pc = "reset", !.exc = exc, !.at = at]

\* The file after the handle's buffer is written out (close, or a full buffer).
Flushed(files, name, h) ==
    IF h.open /\ ~h.stale /\ name \in DOMAIN files
    THEN [files EXCEPT ![name] = @ \o h.buf]
    ELSE files

\* git push: HEAD can be published only when it is not behind the remote;
\* the push sends the commits of HEAD, which the remote then holds.
CanPush == head = Len(revs)

\* Whether the transfer of a push or a pull gets through.
Transfers == IF network = "lossy" THEN BOOLEAN ELSE {TRUE}

\* ------------------------------------------------- load_data, lines 339-382
RECURSIVE LoadProducts(_, _, _)
LoadProducts(raw_products, k, acc) ==
    IF k > Len(raw_products) THEN acc
    ELSE
      LET product == ProductInit(raw_products[k])
      IN  IF product.name \in DOMAIN acc.products
          THEN [acc EXCEPT !.exc = "UpdateFailed"]
          ELSE LoadProducts(raw_products, k + 1,
                  [acc EXCEPT !.products = (product.name :> product) @@ @])

RECURSIVE TextSum(_, _, _)
TextSum(text, account, cur) ==
    IF text = << >> THEN 0
    ELSE SumOf(Head(text).postings, account, cur) + TextSum(Tail(text), account, cur)

RECURSIVE LedgerSum(_, _, _, _)
LedgerSum(files, names, account, cur) ==
    IF names = {} THEN 0
    ELSE LET n == CHOOSE x \in names : TRUE
         IN  TextSum(files[n], account, cur)
               + LedgerSum(files, names \ {n}, account, cur)

\* The files bartab.beancount includes through dynamic.beancount.
Included(rev, incl) == incl \cup Content(revs[rev]).includes

\* The accounts with at least one posting in the loaded ledger.
PostedAccounts(rev, files, incl) ==
    Content(revs[rev]).posted
      \cup UNION { UNION { {p.account : p \in Range(txn.postings)}
                           : txn \in Range(files[n]) }
                   : n \in Included(rev, incl) \cap DOMAIN files }

\* The rows of the balance query: the members and the cash account.
InQuery(account) == Parent(account) = MEMBERS_PARENT \/ account = CASH_ACCT

\* What load_data builds from the working tree before it assigns any field.
BuildLoad(rev, files, incl) ==
    LET content == Content(revs[rev])
        raw == RawCatalog(content.catalog)
        prods == IF raw.islist
                 THEN LoadProducts(raw.items, 1, [exc |-> "none", products |-> << >>])
                 ELSE [exc |-> "TypeError", products |-> << >>]
        names == Included(rev, incl)
        balances == {a \in PostedAccounts(rev, files, incl) : InQuery(a)}
        loaded == {a \in content.opens : a \in balances}
    IN  IF prods.exc # "none"
        THEN [exc |-> prods.exc, members |-> << >>, products |-> << >>]
        ELSE IF content.ledger_errors \/ \E n \in names : n \notin DOMAIN files
        THEN [exc |-> "UpdateFailed", members |-> << >>, products |-> << >>]
        ELSE IF \E a \in loaded : MemberInit(a).exc # "none"
        THEN [exc |-> "ValueError", members |-> << >>, products |-> << >>]
        ELSE [exc |-> "none",
              members |-> [a \in loaded |->
                             [c \in Currencies |-> LedgerSum(files, names, a, c)]],
              products |-> prods.products]

\* The loads some field of some engine still refers to.
Live(ar, ac, pr) == Range(ar) \cup Range(ac) \cup Range(pr)
Collect(o, refs) == [g \in DOMAIN o \cap refs |-> o[g]]


\* --------------------------------------------- git_transaction, 269-284
\* git reset --hard <rev>: HEAD, the index and the tracked files go back to
\* the revision; a file that is in the index but in no revision is removed,
\* and a handle that was open on it now writes to an unlinked file.
ResetHard(rev) ==
    /\ head' = rev
    /\ ledger_files' = [n \in DOMAIN ledger_files \ staged |-> ledger_files[n]]
    /\ dynamic' = Content(revs[rev]).includes
    /\ staged' = {}
    /\ instance_ledger' =
          [e \in Engines |->
             IF instance_ledger[e].open /\ instance_ledger_name[e] \in staged
             THEN [instance_ledger[e] EXCEPT !.stale = TRUE]
             ELSE instance_ledger[e]]

\* The except clause of git_transaction: reset, then re-raise.
git_reset(t) ==
    /\ th[t].pc = "reset"
    /\ ResetHard(th[t].head0)
    /\ th' = [th EXCEPT ![t] = Finish(th[t], th[t].exc)]
    /\ repo_lock' = Unwind(t)
    /\ UNCHANGED << revs, now, instance_ledger_name, dirVars, ntxns, folded, network >>

\* ------------------------------------------------------ apply_txn, 316-333
Imbalanced ==
    [exc |-> "none", type |-> "transfer",
     postings |-> create_simple_posting(<< >>, Alice, -500, "EUR")]

\* The transaction a caller builds from its inputs; "raw" stands for a
\* Transaction the caller filled with postings of its own.
BuildTxn(arg) ==
    CASE arg.kind = "deposit"  -> DepositTxn(arg.member, arg.amount)
      [] arg.kind = "transfer" -> TransferTxn(arg.member, arg.other, arg.amount)
      [] arg.kind = "buy"      -> BuyTxn(arg.member,
                                         [k \in DOMAIN arg.items |->
                                            << ProductInit(arg.items[k][1]),
                                               arg.items[k][2] >>])
      [] arg.kind = "raw"      -> Imbalanced

\* The transactions callers hand to apply_txn.
ApplyInputs ==
    { [kind |-> "deposit", member |-> Alice, other |-> None, amount |-> 500,
       items |-> << >>],
      [kind |-> "deposit", member |-> CASH_ACCT, other |-> None, amount |-> 500,
       items |-> << >>],
      [kind |-> "raw", member |-> Alice, other |-> None, amount |-> 500,
       items |-> << >>] }

\* apply_txn without the assertion of line 322.
apply_txn_unchecked(t) ==
    /\ th[t].pc = "idle"
    /\ ntxns < MaxTxns
    /\ \E arg \in ApplyInputs :
         LET built == BuildTxn(arg)
             txn == [id |-> ntxns + 1, type |-> built.type, postings |-> built.postings]
         IN  th' = [th EXCEPT ![t] =
                      [th[t] EXCEPT !.op = "apply_txn", !.txn = txn, !.exc = "none",
                                    !.arg = arg, !.snap = Snap(Me(t)),
                                    !.head0 = head, !.i = 1, !.pc = "a_print"]]
    /\ ntxns' = ntxns + 1
    /\ UNCHANGED << repoVars, now, repo_lock, selfVars, dirVars, folded, network >>

\* lines 317-322 and the rev-parse of git_transaction
apply_txn(t) ==
    /\ th[t].pc = "idle"
    /\ ntxns < MaxTxns
    /\ \E arg \in ApplyInputs :
         LET built == BuildTxn(arg)
             txn == [id |-> ntxns + 1, type |-> built.type, postings |-> built.postings]
             r == [th[t] EXCEPT !.op = "apply_txn", !.txn = txn, !.exc = "none",
                                !.arg = arg,
                                !.snap = Snap(Me(t)), !.head0 = head, !.i = 1]
         IN  th' = [th EXCEPT ![t] =
                      IF is_small(compute_residual(txn.postings))
                      THEN [r EXCEPT !.pc = "a_print"]
                      ELSE Raise(r, "AssertionError", "assert")]
    /\ ntxns' = ntxns + 1
    /\ UNCHANGED << repoVars, now, repo_lock, selfVars, dirVars, folded, network >>

\* line 326: print_entry writes to the handle's buffer, or to sys.stdout when
\* the handle is None; a full buffer is written out to the file.
a_print(t) ==
    LET e == Me(t)
        h == instance_ledger[e]
        w == [h EXCEPT !.buf = Append(@, th[t].txn)]
    IN  /\ th[t].pc = "a_print"
        /\ \/ /\ ~h.open
              /\ UNCHANGED << instance_ledger, ledger_files >>
           \/ /\ h.open
              /\ instance_ledger' = [instance_ledger EXCEPT ![e] = w]
              /\ UNCHANGED ledger_files
           \/ /\ h.open
              /\ instance_ledger' = [instance_ledger EXCEPT ![e] = [w EXCEPT !.buf = << >>]]
              /\ ledger_files' = Flushed(ledger_files, instance_ledger_name[e], w)
        /\ th' = [th EXCEPT ![t].pc = "a_add"]
        /\ UNCHANGED << revs, head, dynamic, staged, now, repo_lock,
                        instance_ledger_name, dirVars, ntxns, folded, network >>

\* line 327: git add <instance_ledger_name>
a_add(t) ==
    LET name == instance_ledger_name[Me(t)]
    IN  /\ th[t].pc = "a_add"
        /\ IF name = None
           THEN /\ th' = [th EXCEPT ![t] = Rollback(th[t], "TypeError", "add")]
                /\ UNCHANGED staged
           ELSE IF name \notin DOMAIN ledger_files
           THEN /\ th' = [th EXCEPT ![t] = Rollback(th[t], "CalledProcessError", "add")]
                /\ UNCHANGED staged
           ELSE /\ th' = [th EXCEPT ![t].pc = "a_push"]
                /\ staged' = staged \cup {name}
        /\ UNCHANGED << revs, head, ledger_files, dynamic, now, repo_lock,
                        selfVars, dirVars, ntxns, folded, network >>

\* All the postings folded into the members of one load.
RECURSIVE FoldAll(_, _)
FoldAll(members, postings) ==
    IF postings = << >> THEN members
    ELSE LET p == Head(postings)
         IN  FoldAll(IF p.account \in DOMAIN members
                     THEN [members EXCEPT ![p.account][p.currency] = @ + p.number]
                     ELSE members,
                     Tail(postings))

\* apply_txn with the fold of lines 330-333 placed inside the with block,
\* ahead of the push.
a_push_early(t) ==
    LET g == accounts_raw[Me(t)]
    IN  /\ th[t].pc = "a_push"
        /\ \E ok \in Transfers :
             IF ok /\ CanPush
             THEN /\ th' = [th EXCEPT ![t] = IF Len(th[t].txn.postings) = 0
                                             THEN Finish(th[t], "none")
                                             ELSE [th[t] EXCEPT !.pc = "a_fold"]]
                  /\ UNCHANGED objs
             ELSE /\ th' = [th EXCEPT ![t] = Rollback(th[t], "CalledProcessError", "push")]
                  /\ objs' = IF g = 0 THEN objs
                             ELSE [objs EXCEPT ![g].members =
                                      FoldAll(@, th[t].txn.postings)]
        /\ UNCHANGED << repoVars, now, repo_lock, selfVars, accounts_raw, accounts,
                        products, nloads, ntxns, folded, network >>

\* line 276 after the block of apply_txn: git push
a_push(t) ==
    /\ th[t].pc = "a_push"
    /\ \E ok \in Transfers :
         IF ok /\ CanPush
         THEN th' = [th EXCEPT ![t] = IF Len(th[t].txn.postings) = 0
                                      THEN Finish(th[t], "none")
                                      ELSE [th[t] EXCEPT !.pc = "a_fold"]]
         ELSE th' = [th EXCEPT ![t] = Rollback(th[t], "CalledProcessError", "push")]
    /\ UNCHANGED << repoVars, now, repo_lock, selfVars, dirVars, ntxns, folded, network >>

\* lines 330-333, one posting per step
a_fold(t) ==
    LET e == Me(t)
        r == th[t]
        posting == r.txn.postings[r.i]
        g == accounts_raw[e]
        next == IF r.i = Len(r.txn.postings)
                THEN Finish(r, "none") ELSE [r EXCEPT !.i = @ + 1]
    IN  /\ r.pc = "a_fold"
        /\ IF g = 0
           THEN /\ th' = [th EXCEPT ![t] = Raise(r, "AttributeError", "fold")]
                /\ UNCHANGED << objs, folded >>
           ELSE IF posting.account \in DOMAIN objs[g].members
           THEN /\ objs' = [objs EXCEPT ![g].members[posting.account][posting.currency] =
                                           @ + posting.number]
                /\ folded' = folded \cup {r.txn.id}
                /\ th' = [th EXCEPT ![t] = next]
           ELSE /\ th' = [th EXCEPT ![t] = next]
                /\ UNCHANGED << objs, folded >>
        /\ UNCHANGED << repoVars, now, repo_lock, selfVars, accounts_raw, accounts,
                        products, nloads, ntxns, network >>


\* ------------------------------------------------------ load_data, 335-387
\* load_data emptying the engine's field before it reads the files, in place
\* of building a local.
load_data_eager(t) ==
    LET e == Me(t)
        built == BuildLoad(head, ledger_files, dynamic)
        r == [th[t] EXCEPT !.op = "load_data", !.exc = "none", !.snap = Snap(e)]
    IN  /\ th[t].pc = "idle"
        /\ CanAcquire(t)
        /\ built.exc = "none" => nloads < MaxLoads
        /\ IF built.exc # "none"
           THEN /\ th' = [th EXCEPT ![t] = Raise(r, built.exc, "load")]
                /\ accounts_raw' = [accounts_raw EXCEPT ![e] = 0]
                /\ UNCHANGED << repo_lock, nloads >>
           ELSE /\ th' = [th EXCEPT ![t] = [r EXCEPT !.pc = "l_raw", !.new = built]]
                /\ repo_lock' = Acquire(t)
                /\ nloads' = nloads + 1
                /\ UNCHANGED accounts_raw
        /\ UNCHANGED << repoVars, now, selfVars, accounts, products,
                        objs, ntxns, folded, network >>

\* lines 336-382 under the lock: read the catalog and the ledger, build the
\* new dictionaries in locals.
load_data(t) ==
    LET built == BuildLoad(head, ledger_files, dynamic)
        r == [th[t] EXCEPT !.op = "load_data", !.exc = "none", !.snap = Snap(Me(t))]
    IN  /\ th[t].pc = "idle"
        /\ CanAcquire(t)
        /\ built.exc = "none" => nloads < MaxLoads
        /\ IF built.exc # "none"
           THEN /\ th' = [th EXCEPT ![t] = Raise(r, built.exc, "load")]
                /\ UNCHANGED << repo_lock, nloads >>
           ELSE /\ th' = [th EXCEPT ![t] = [r EXCEPT !.pc = "l_raw", !.new = built]]
                /\ repo_lock' = Acquire(t)
                /\ nloads' = nloads + 1
        /\ UNCHANGED << repoVars, now, selfVars, accounts_raw, accounts, products,
                        objs, ntxns, folded, network >>

\* line 385: self.accounts_raw = accounts_raw
l_raw(t) ==
    LET e == Me(t)
        g == nloads
    IN  /\ th[t].pc = "l_raw"
        /\ accounts_raw' = [accounts_raw EXCEPT ![e] = g]
        /\ objs' = Collect((g :> [members |-> th[t].new.members,
                                  products |-> th[t].new.products]) @@ objs,
                           Live(accounts_raw', accounts, products))
        /\ th' = [th EXCEPT ![t].pc = "l_acc", ![t].new = NoLoad]
        /\ UNCHANGED << repoVars, now, repo_lock, selfVars, accounts, products,
                        nloads, ntxns, folded, network >>

\* line 386: self.accounts = accounts
l_acc(t) ==
    LET e == Me(t)
    IN  /\ th[t].pc = "l_acc"
        /\ accounts' = [accounts EXCEPT ![e] = accounts_raw[e]]
        /\ objs' = Collect(objs, Live(accounts_raw, accounts', products))
        /\ th' = [th EXCEPT ![t].pc = "l_prod"]
        /\ UNCHANGED << repoVars, now, repo_lock, selfVars, accounts_raw, products,
                        nloads, ntxns, folded, network >>

\* The check of line 287 and the loop entry of lines 289-295 with the
\* rev-parse of git_transaction.
LoopEntry(r) ==
    IF instance_ledger_name[r.self] = None
    THEN [r EXCEPT !.pc = "o_create", !.trial = << Hostname, now >>, !.head0 = head]
    ELSE [r EXCEPT !.pc = "o_open"]

\* line 387: self.products = products, and the return of load_data
l_prod(t) ==
    LET e == Me(t)
    IN  /\ th[t].pc = "l_prod"
        /\ products' = [products EXCEPT ![e] = accounts[e]]
        /\ objs' = Collect(objs, Live(accounts_raw, accounts, products'))
        /\ th' = [th EXCEPT ![t] = IF th[t].nested
                                   THEN [th[t] EXCEPT !.pc = "o_start"]
                                   ELSE Finish(th[t], "none")]
        /\ repo_lock' = Release(t)
        /\ UNCHANGED << repoVars, now, selfVars, accounts_raw, accounts,
                        nloads, ntxns, folded, network >>

\* --------------------------------------------------- pull_changes, 235-262
\* lines 236-240 under the lock: close the handle and forget it
pull_changes(t) ==
    LET e == Me(t)
    IN  /\ th[t].pc = "idle"
        /\ CanAcquire(t)
        /\ repo_lock' = Acquire(t)
        /\ ledger_files' = Flushed(ledger_files, instance_ledger_name[e], instance_ledger[e])
        /\ instance_ledger' = [instance_ledger EXCEPT ![e] = NoHandle]
        /\ th' = [th EXCEPT ![t] = [th[t] EXCEPT !.op = "pull_changes", !.exc = "none",
                                       !.snap = Snap(e), !.pc = "p_pull"]]
        /\ UNCHANGED << revs, head, dynamic, staged, now, instance_ledger_name,
                        dirVars, ntxns, folded, network >>

\* lines 242-250: git pull --no-edit || ( git merge --abort; false; )
p_pull(t) ==
    /\ th[t].pc = "p_pull"
    /\ \E ok \in Transfers :
         IF ok
         THEN /\ head' = Len(revs)
              /\ th' = [th EXCEPT ![t].pc = "p_load"]
              /\ UNCHANGED repo_lock
         ELSE /\ th' = [th EXCEPT ![t] = Raise(th[t], "UpdateFailed", "pull")]
              /\ repo_lock' = Unwind(t)
              /\ UNCHANGED head
    /\ UNCHANGED << revs, ledger_files, dynamic, staged, now, selfVars, dirVars,
                    ntxns, folded, network >>

\* lines 252-257: the nested load_data up to its assignments
p_load(t) ==
    LET built == BuildLoad(head, ledger_files, dynamic)
    IN  /\ th[t].pc = "p_load"
        /\ built.exc = "none" => nloads < MaxLoads
        /\ IF built.exc = "none"
           THEN /\ th' = [th EXCEPT ![t].pc = "l_raw", ![t].new = built,
                                    ![t].nested = TRUE]
                /\ repo_lock' = Acquire(t)
                /\ nloads' = nloads + 1
           ELSE IF built.exc = "UpdateFailed"
           THEN /\ th' = [th EXCEPT ![t] = Raise(th[t], "UpdateFailed", "load")]
                /\ repo_lock' = Unwind(t)
                /\ UNCHANGED nloads
           ELSE /\ th' = [th EXCEPT ![t].pc = "p_checkout"]
                /\ UNCHANGED << repo_lock, nloads >>
        /\ UNCHANGED << repoVars, now, selfVars, accounts_raw, accounts, products,
                        objs, ntxns, folded, network >>

\* lines 258-260: git checkout @{-1}, run in the process's working directory.
\* @{-1} is the branch checked out before the current one, whatever revision
\* it is at; without such a branch the command fails.
p_checkout(t) ==
    /\ th[t].pc = "p_checkout"
    /\ \/ /\ th' = [th EXCEPT ![t] = Raise(th[t], "CalledProcessError", "load")]
          /\ UNCHANGED head
       \/ /\ \E rev \in 1..Len(revs) : head' = rev
          /\ th' = [th EXCEPT ![t] = Raise(th[t], "UpdateFailed", "load")]
    /\ repo_lock' = Unwind(t)
    /\ UNCHANGED << revs, ledger_files, dynamic, staged, now, selfVars, dirVars,
                    ntxns, folded, network >>

\* ------------------------------------------- open_instance_ledger, 286-314
open_instance_ledger(t) ==
    /\ th[t].pc = "idle"
    /\ th' = [th EXCEPT ![t] = [th[t] EXCEPT !.op = "open_instance_ledger",
                                   !.exc = "none", !.snap = Snap(Me(t)),
                                   !.pc = "o_start"]]
    /\ UNCHANGED << repoVars, now, repo_lock, selfVars, dirVars, ntxns, folded, network >>

\* lines 287-295
o_start(t) ==
    /\ th[t].pc = "o_start"
    /\ IF instance_ledger[Me(t)].open
       THEN /\ th' = [th EXCEPT ![t] = Finish(th[t], "none")]
            /\ repo_lock' = Unwind(t)
       ELSE /\ th' = [th EXCEPT ![t] = LoopEntry(th[t])]
            /\ UNCHANGED repo_lock
    /\ UNCHANGED << repoVars, now, selfVars, dirVars, ntxns, folded, network >>

\* lines 298-302 with open(path, "wt"): an existing file is no obstacle.
o_create_shared(t) ==
    LET e == Me(t)
        trial == th[t].trial
    IN  /\ th[t].pc = "o_create"
        /\ ledger_files' = (trial :> << >>) @@ ledger_files
        /\ instance_ledger_name' = [instance_ledger_name EXCEPT ![e] = trial]
        /\ th' = [th EXCEPT ![t].pc = "o_include"]
        /\ UNCHANGED << revs, head, dynamic, staged, now, repo_lock, instance_ledger,
                        dirVars, ntxns, folded, network >>

\* lines 298-306: open(path, "xt"); on FileExistsError sleep and continue
o_create(t) ==
    LET e == Me(t)
        trial == th[t].trial
    IN  /\ th[t].pc = "o_create"
        /\ IF trial \in DOMAIN ledger_files
           THEN /\ now < MaxClock
                /\ now' = now + 1
                /\ th' = [th EXCEPT ![t].pc = "o_push_c"]
                /\ UNCHANGED << ledger_files, instance_ledger_name >>
           ELSE /\ ledger_files' = (trial :> << >>) @@ ledger_files
                /\ instance_ledger_name' = [instance_ledger_name EXCEPT ![e] = trial]
                /\ th' = [th EXCEPT ![t].pc = "o_include"]
                /\ UNCHANGED now
        /\ UNCHANGED << revs, head, dynamic, staged, repo_lock, instance_ledger,
                        dirVars, ntxns, folded, network >>

\* lines 309-310: append the include line to dynamic.beancount
o_include(t) ==
    /\ th[t].pc = "o_include"
    /\ dynamic' = dynamic \cup {th[t].trial}
    /\ th' = [th EXCEPT ![t].pc = "o_add"]
    /\ UNCHANGED << revs, head, ledger_files, staged, now, repo_lock, selfVars,
                    dirVars, ntxns, folded, network >>

\* lines 311-312: git add of the new file and of dynamic.beancount
o_add(t) ==
    /\ th[t].pc = "o_add"
    /\ IF th[t].trial \in DOMAIN ledger_files
       THEN /\ staged' = staged \cup {th[t].trial}
            /\ th' = [th EXCEPT ![t].pc = "o_push"]
       ELSE /\ th' = [th EXCEPT ![t] = Rollback(th[t], "CalledProcessError", "add")]
            /\ UNCHANGED staged
    /\ UNCHANGED << revs, head, ledger_files, dynamic, now, repo_lock, selfVars,
                    dirVars, ntxns, folded, network >>

\* line 276, leaving the with block: git push, then back to line 289
PushThenLoop(t) ==
    /\ \E ok \in Transfers :
         IF ok /\ CanPush
         THEN th' = [th EXCEPT ![t] = LoopEntry(th[t])]
         ELSE th' = [th EXCEPT ![t] = Rollback(th[t], "CalledProcessError", "push")]
    /\ UNCHANGED << repoVars, now, repo_lock, selfVars, dirVars, ntxns, folded, network >>

\* the with block ended after the else branch
o_push(t) == th[t].pc = "o_push" /\ PushThenLoop(t)

\* the with block ended by the continue of line 306
o_push_c(t) == th[t].pc = "o_push_c" /\ PushThenLoop(t)

\* lines 313-314: open(name, "at") creates the file when it is missing
o_open(t) ==
    LET e == Me(t)
        name == instance_ledger_name[e]
    IN  /\ th[t].pc = "o_open"
        /\ instance_ledger' = [instance_ledger EXCEPT ![e] = NewHandle]
        /\ ledger_files' = IF name \in DOMAIN ledger_files THEN ledger_files
                           ELSE (name :> << >>) @@ ledger_files
        /\ th' = [th EXCEPT ![t] = Finish(th[t], "none")]
        /\ repo_lock' = Unwind(t)
        /\ UNCHANGED << revs, head, dynamic, staged, now, instance_ledger_name,
                        dirVars, ntxns, folded, network >>

\* ------------------------------------------ close_instance_ledger, 389-392
\* close_instance_ledger forgetting the name of the instance ledger in place
\* of the handle.
close_instance_ledger_name(t) ==
    LET e == Me(t)
    IN  /\ th[t].pc = "idle"
        /\ instance_ledger_name' = [instance_ledger_name EXCEPT ![e] = None]
        /\ th' = [th EXCEPT ![t] = Finish([th[t] EXCEPT !.op = "close_instance_ledger",
                                              !.snap = Snap(e)], "none")]
        /\ UNCHANGED << repoVars, now, repo_lock, instance_ledger,
                        dirVars, ntxns, folded, network >>

close_instance_ledger(t) ==
    LET e == Me(t)
    IN  /\ th[t].pc = "idle"
        /\ ledger_files' = Flushed(ledger_files, instance_ledger_name[e], instance_ledger[e])
        /\ instance_ledger' = [instance_ledger EXCEPT ![e] = NoHandle]
        /\ th' = [th EXCEPT ![t] = Finish([th[t] EXCEPT !.op = "close_instance_ledger",
                                              !.snap = Snap(e)], "none")]
        /\ UNCHANGED << revs, head, dynamic, staged, now, repo_lock,
                        instance_ledger_name, dirVars, ntxns, folded, network >>

\* The caller has seen the outcome of its call.
return(t) ==
    /\ th[t].pc = "done"
    /\ th' = [th EXCEPT ![t] = IdleThread(Me(t))]
    /\ UNCHANGED << repoVars, now, repo_lock, selfVars, dirVars, ntxns, folded, network >>

\* -------------------------------------------------------- the environment
\* Another host publishes a revision.
EnvPush ==
    /\ Len(revs) <= MaxRev
    /\ \E tag \in RevTags : revs' = Append(revs, tag)
    /\ UNCHANGED << head, ledger_files, dynamic, staged, now, repo_lock, selfVars,
                    dirVars, ntxns, folded, network, th >>

\* Time passes.
Tick ==
    /\ now < MaxClock
    /\ now' = now + 1
    /\ UNCHANGED << repoVars, repo_lock, selfVars, dirVars, ntxns, folded, network, th >>

\* Another process of this host, working in the same directory, creates the
\* file its own allocation chose.
ForeignCreate ==
    /\ << Hostname, now >> \notin DOMAIN ledger_files
    /\ ledger_files' = (<< Hostname, now >> :> << >>) @@ ledger_files
    /\ UNCHANGED << revs, head, dynamic, staged, now, repo_lock, selfVars,
                    dirVars, ntxns, folded, network, th >>

\* ------------------------------------------------------------------ specs
Step(t) ==
    \/ apply_txn(t) \/ a_print(t) \/ a_add(t) \/ a_push(t) \/ a_fold(t)
    \/ git_reset(t)
    \/ load_data(t) \/ l_raw(t) \/ l_acc(t) \/ l_prod(t)
    \/ pull_changes(t) \/ p_pull(t) \/ p_load(t) \/ p_checkout(t)
    \/ open_instance_ledger(t) \/ o_start(t) \/ o_create(t) \/ o_include(t)
    \/ o_add(t) \/ o_push(t) \/ o_push_c(t) \/ o_open(t)
    \/ close_instance_ledger(t) \/ return(t)

Env == EnvPush \/ Tick \/ ForeignCreate

\* The calls of one thread of control on one engine.
Callers == {1}
Next == (\E t \in Callers : Step(t)) \/ Env
Spec == Init /\ [][Next]_vars

\* The transaction builders on their own: the inputs are drawn in the
\* initial state and one builder is applied to them.
PriceInputs == {3500, 1005}
PaybackInputs == {500}
Quantities == {1, 2}
Amounts == {500, 1250}
ProductDefs ==
    LET plain == [name : {"Beer"}, currency : {"BEER"}, price : PriceInputs]
                   \cup [name : {"Mate"}, currency : {"MATE"}, price : PriceInputs]
    IN  plain \cup { [name |-> d.name, currency |-> d.currency, price |-> d.price,
                       payback |-> [account |-> a, amount |-> b]]
                      : d \in plain, a \in {Alice, Bob}, b \in PaybackInputs }
ItemLists == UNION { [1..n -> ProductDefs \X Quantities] : n \in 0..MaxItems }
BuilderInputs ==
    { [kind |-> "buy", member |-> m, other |-> None, amount |-> 0, items |-> l]
        : m \in {Alice}, l \in ItemLists }
    \cup { [kind |-> "deposit", member |-> m, other |-> None, amount |-> a, items |-> << >>]
        : m \in {Alice, CASH_ACCT}, a \in Amounts }
    \cup { [kind |-> "transfer", member |-> m, other |-> o, amount |-> a, items |-> << >>]
        : m \in {Alice}, o \in {Alice, Bob}, a \in Amounts }

Built(r, built) ==
    Finish([r EXCEPT !.txn = [id |-> 0, type |-> built.type, postings |-> built.postings]],
           built.exc)

\* BuyTxn(buyer, [(Product(definition), quantity), ...])
buy_txn(t) ==
    LET arg == th[t].arg
    IN  /\ th[t].pc = "idle"
        /\ arg.kind = "buy"
        /\ th' = [th EXCEPT ![t] = Built([th[t] EXCEPT !.op = "BuyTxn"], BuildTxn(arg))]
        /\ UNCHANGED << repoVars, now, repo_lock, selfVars, dirVars, ntxns, folded, network >>

deposit_txn(t) ==
    LET arg == th[t].arg
    IN  /\ th[t].pc = "idle"
        /\ arg.kind = "deposit"
        /\ th' = [th EXCEPT ![t] = Built([th[t] EXCEPT !.op = "DepositTxn"], BuildTxn(arg))]
        /\ UNCHANGED << repoVars, now, repo_lock, selfVars, dirVars, ntxns, folded, network >>

transfer_txn(t) ==
    LET arg == th[t].arg
    IN  /\ th[t].pc = "idle"
        /\ arg.kind = "transfer"
        /\ th' = [th EXCEPT ![t] = Built([th[t] EXCEPT !.op = "TransferTxn"], BuildTxn(arg))]
        /\ UNCHANGED << repoVars, now, repo_lock, selfVars, dirVars, ntxns, folded, network >>

InitTxn ==
    /\ InitEngine
    /\ network = "lossy"
    /\ \E input \in BuilderInputs :
         th = [t \in Threads |-> IF t \in Callers
                                 THEN [IdleThread(1) EXCEPT !.arg = input]
                                 ELSE IdleThread(1)]
NextTxn == \E t \in Callers : buy_txn(t) \/ deposit_txn(t) \/ transfer_txn(t)
SpecTxn == InitTxn /\ [][NextTxn]_vars

\* The allocation of an instance ledger by every engine of a process, each
\* in a thread of its own, in one working directory with a remote at rest.
InitAlloc ==
    /\ InitEngine
    /\ network = "reliable"
    /\ th = [t \in Threads |-> IdleThread(t)]
Allocator(t) ==
    \/ open_instance_ledger(t)
    \/ o_start(t) \/ o_create(t) \/ o_include(t) \/ o_add(t)
    \/ o_push(t) \/ o_push_c(t) \/ o_open(t)
NextAlloc == (\E t \in Threads : Allocator(t)) \/ Tick
SpecAlloc == InitAlloc /\ [][NextAlloc]_vars

\* Two threads calling into the same engine: thread 1 applies transactions,
\* thread 2 pulls and reloads.
Writer(t) ==
    \/ apply_txn(t) \/ a_print(t) \/ a_add(t) \/ a_push(t) \/ a_fold(t)
    \/ git_reset(t) \/ return(t)
Syncer(t) ==
    \/ load_data(t) \/ l_raw(t) \/ l_acc(t) \/ l_prod(t)
    \/ pull_changes(t) \/ p_pull(t) \/ p_load(t) \/ p_checkout(t)
    \/ o_start(t) \/ o_create(t) \/ o_include(t) \/ o_add(t)
    \/ o_push(t) \/ o_open(t)
    \/ git_reset(t) \/ return(t)
NextConc == Writer(1) \/ Syncer(2) \/ EnvPush
SpecConc == Init /\ [][NextConc]_vars


\* ================================================================== claims
Done(t, op) == th[t].pc = "done" /\ th[t].op = op
Returned(t, op) == Done(t, op) /\ th[t].exc = "none"
Raised(t, op) == Done(t, op) /\ th[t].exc # "none"

\* The text the remote repository holds of the transactions and of the
\* instance ledgers of this engine.
PublishedTxns == Content(revs[Len(revs)]).txns
PublishedIncludes == Content(revs[Len(revs)]).includes

HasPayback(items) == \A k \in DOMAIN items : "payback" \in DOMAIN items[k][1]
NoPayback(items) == \A k \in DOMAIN items : "payback" \notin DOMAIN items[k][1]

\* price * quantity summed over the items, and the paybacks due to a payee
RECURSIVE ChargeOf(_)
ChargeOf(items) ==
    IF items = << >> THEN 0
    ELSE parse_price(Head(items)[1].price) * Head(items)[2] + ChargeOf(Tail(items))
RECURSIVE PaidTo(_, _)
PaidTo(items, payee) ==
    IF items = << >> THEN 0
    ELSE (IF Head(items)[1].payback.account = payee
          THEN parse_price(Head(items)[1].payback.amount) * Head(items)[2] ELSE 0)
         + PaidTo(Tail(items), payee)
Payees(items) == {items[k][1].payback.account : k \in DOMAIN items}
RECURSIVE PaidToAll(_, _)
PaidToAll(items, payees) ==
    IF payees = {} THEN 0
    ELSE LET x == CHOOSE y \in payees : TRUE
         IN  PaidTo(items, x) + PaidToAll(items, payees \ {x})
EUR(account, number) == [account |-> account, number |-> number, currency |-> "EUR"]

\* C7: every purchase, with or without paybacks, yields a transaction whose
\* postings sum to zero in every currency.
C7_PurchaseBalances ==
    \A t \in Callers :
       Done(t, "BuyTxn") =>
          /\ th[t].exc = "none"
          /\ is_small(compute_residual(th[t].txn.postings))

\* C8: a purchase of quantity q of a product defined without a payback entry
\* is constructed, charges the buyer price*q in EUR and credits Income:Bar
\* with price*q.
C8_PlainPurchase ==
    \A t \in Callers :
       LET items == th[t].arg.items
           ps == th[t].txn.postings
       IN  (Done(t, "BuyTxn") /\ Len(items) = 1 /\ NoPayback(items)) =>
              /\ th[t].exc = "none"
              /\ \E k \in DOMAIN ps : ps[k] = EUR(th[t].arg.member, ChargeOf(items))
              /\ \E k \in DOMAIN ps : ps[k] = EUR(INCOME_ACCT, -ChargeOf(items))

\* C9: in a purchase of products with paybacks the buyer's EUR posting is the
\* sum of price*quantity, each payee has exactly one posting, of minus the sum
\* of its payback*quantity, and Income:Bar gets minus the rest.
C9_PaybackPostings ==
    \A t \in Callers :
       LET items == th[t].arg.items
           ps == th[t].txn.postings
           n == Len(items)
           section == (2 * n + 2)..(Len(ps) - 1)
       IN  (Done(t, "BuyTxn") /\ n > 0 /\ HasPayback(items)) =>
              /\ th[t].exc = "none"
              /\ Len(ps) = 2 * n + 2 + Cardinality(Payees(items))
              /\ ps[2 * n + 1] = EUR(th[t].arg.member, ChargeOf(items))
              /\ \A x \in Payees(items) :
                    /\ Cardinality({k \in section : ps[k].account = x}) = 1
                    /\ \E k \in section : ps[k] = EUR(x, -PaidTo(items, x))
              /\ ps[Len(ps)] = EUR(INCOME_ACCT,
                                   -(ChargeOf(items) - PaidToAll(items, Payees(items))))

\* Two items with paybacks to the same payee have been turned into a purchase.
C9_Witness ==
    \E t \in Callers :
       LET items == th[t].arg.items
       IN  /\ Returned(t, "BuyTxn")
           /\ Len(items) = 2
           /\ HasPayback(items)
           /\ Cardinality(Payees(items)) = 1
           /\ items[1][1].name # items[2][1].name


\* Whether the text of a transaction is in some file of the working tree.
InLocalText(id) ==
    \E n \in DOMAIN ledger_files : \E k \in DOMAIN ledger_files[n] : ledger_files[n][k].id = id

\* C1: every transaction that has been folded into a Member balance has its
\* text in the remote repository.
C1_DurableBeforeFold == \A id \in folded : id \in PublishedTxns

\* C2: when the push of apply_txn fails, apply_txn raises with HEAD at the
\* revision recorded at its start and with accounts, accounts_raw, products
\* and every Member balance as they were before the call.
C2_PushFailureRollsBack ==
    \A t \in Callers :
       LET r == th[t]
           e == r.self
       IN  (Done(t, "apply_txn") /\ r.at = "push") =>
              /\ r.exc # "none"
              /\ head = r.snap.head
              /\ accounts_raw[e] = r.snap.accounts_raw
              /\ accounts[e] = r.snap.accounts
              /\ products[e] = r.snap.products
              /\ objs = r.snap.objs

\* apply_txn has raised after a failed push on a loaded engine whose handle
\* had taken the text.
C2_Witness ==
    \E t \in Callers :
       /\ Done(t, "apply_txn") /\ th[t].at = "push"
       /\ accounts_raw[th[t].self] # 0
       /\ th[t].txn.postings[1].account \in DOMAIN objs[accounts_raw[th[t].self]].members
       /\ instance_ledger[th[t].self].open

\* C3: a git_transaction that completes has its staged changes in the remote
\* repository; one that raises leaves none of them in the working tree or in
\* the remote.
C3_AllOrNothing ==
    \A t \in Callers :
       LET r == th[t]
           e == r.self
       IN  /\ (Returned(t, "apply_txn") /\ r.snap.name # None) =>
                 r.txn.id \in PublishedTxns
           /\ (Returned(t, "open_instance_ledger") /\ r.snap.name = None) =>
                 instance_ledger_name[e] \in PublishedIncludes
           /\ (r.pc = "done" /\ r.at \in {"add", "push"}) =>
                 /\ ~InLocalText(r.txn.id)
                 /\ r.txn.id \notin PublishedTxns
                 /\ r.op = "open_instance_ledger" => instance_ledger_name[e] \notin dynamic

\* C4: no two threads are inside pull_changes, apply_txn or load_data at the
\* same time.
Inside(t) ==
    /\ th[t].pc \notin {"idle", "done"}
    /\ th[t].op \in {"pull_changes", "apply_txn", "load_data"}
C4_Serialized == \A t1, t2 \in Threads : (Inside(t1) /\ Inside(t2)) => t1 = t2

\* C5: when load_data fails, accounts, accounts_raw and products are the
\* objects they were before the call, with the balances they had.
C5_FailedLoadKeepsFields ==
    \A t \in Callers :
       LET r == th[t]
           e == r.self
       IN  (\/ Raised(t, "load_data")
            \/ r.op = "pull_changes" /\ r.pc = "p_checkout"
            \/ Done(t, "pull_changes") /\ r.at = "load") =>
              /\ accounts_raw[e] = r.snap.accounts_raw
              /\ accounts[e] = r.snap.accounts
              /\ products[e] = r.snap.products
              /\ objs = r.snap.objs

\* load_data has failed on an engine that held a loaded directory.
C5_Witness ==
    \E t \in Callers :
       /\ Raised(t, "load_data")
       /\ th[t].exc = "UpdateFailed"
       /\ accounts_raw[th[t].self] # 0
       /\ products[th[t].self] # 0

\* C6: every allocation of the engines of one repository succeeds, and the
\* instance ledger names of any two engines differ.
C6_DistinctNames ==
    /\ \A t \in Threads :
          th[t].pc = "done" =>
             /\ th[t].exc = "none"
             /\ instance_ledger_name[th[t].self] # None
             /\ instance_ledger[th[t].self].open
    /\ \A e1, e2 \in Engines :
          (e1 # e2 /\ instance_ledger_name[e1] # None) =>
             instance_ledger_name[e1] # instance_ledger_name[e2]

\* Every engine has finished its allocation.
C6_Witness ==
    \A t \in Threads : Returned(t, "open_instance_ledger") /\ th[t].self = t

\* The effect of a deposit of the call's transaction on the members in
\* memory: cash up by the amount, the member down by it, nothing else.
DepositEffect(t) ==
    LET r == th[t]
        e == r.self
        g == accounts_raw[e]
        before == r.snap.objs[g].members
        after == objs[g].members
        m == r.arg.member
        a == r.arg.amount
    IN  /\ accounts_raw[e] = r.snap.accounts_raw
        /\ accounts[e] = r.snap.accounts
        /\ DOMAIN after = DOMAIN before
        /\ CASH_ACCT \in DOMAIN before
        /\ after[CASH_ACCT]["EUR"] = before[CASH_ACCT]["EUR"] + a
        /\ after[m]["EUR"] = before[m]["EUR"] - a
        /\ \A x \in DOMAIN before : \A c \in Currencies :
              (c # "EUR" \/ x \notin {m, CASH_ACCT}) => after[x][c] = before[x][c]

DepositApplied(t) ==
    /\ Returned(t, "apply_txn")
    /\ th[t].arg.kind = "deposit"
    /\ th[t].snap.accounts_raw # 0
    /\ th[t].arg.member
          \in DOMAIN th[t].snap.objs[th[t].snap.accounts_raw].members

\* C10 as stated: a successful deposit of A by any loaded member M raises the
\* cash balance by A, lowers M's by A and changes nothing else.
C10_DepositEffect ==
    \A t \in Callers : DepositApplied(t) => DepositEffect(t)

\* C10 as amended: the same for every loaded member other than the cash
\* account, on an engine that has the cash account loaded.
C10_MemberDepositEffect ==
    \A t \in Callers :
       (/\ DepositApplied(t)
        /\ th[t].arg.member # CASH_ACCT
        /\ CASH_ACCT \in DOMAIN th[t].snap.objs[th[t].snap.accounts_raw].members)
          => DepositEffect(t)

\* A deposit of a loaded member has been applied through an open handle.
C10_Witness ==
    \E t \in Callers :
       /\ DepositApplied(t)
       /\ th[t].arg.member = Alice
       /\ CASH_ACCT \in DOMAIN th[t].snap.objs[th[t].snap.accounts_raw].members
       /\ instance_ledger[th[t].self].open
       /\ th[t].txn.id \in folded

\* C11: in every state the engine's instance_ledger is not None only if its
\* instance_ledger_name is not None.
C11_HandleOnlyWithName ==
    \A e \in Engines : instance_ledger[e].open => instance_ledger_name[e] # None

\* A pull_changes has closed the handle and opened it again under the name
\* allocated before.
C11_Witness ==
    \E t \in Callers :
       /\ Returned(t, "pull_changes")
       /\ th[t].snap.name # None
       /\ instance_ledger[th[t].self].open
       /\ instance_ledger_name[th[t].self] = th[t].snap.name

\* C12: a pull_changes whose pull succeeds and whose reload fails raises
\* UpdateFailed with HEAD back at the revision it had before the pull and with
\* accounts, accounts_raw and products as before the call; a pull_changes
\* whose pull fails raises UpdateFailed with the three fields unchanged.
C12_PullFailureRollsBack ==
    \A t \in Callers :
       LET r == th[t]
           e == r.self
       IN  (Raised(t, "pull_changes") /\ r.at \in {"pull", "load"}) =>
              /\ r.exc = "UpdateFailed"
              /\ r.at = "load" => head = r.snap.head
              /\ accounts_raw[e] = r.snap.accounts_raw
              /\ accounts[e] = r.snap.accounts
              /\ products[e] = r.snap.products
              /\ objs = r.snap.objs

\* C13: when the exclusive creation of open_instance_ledger collides with an
\* existing file, the attempt is abandoned: the step after the collision is
\* the retry under a fresh candidate name, with no push in between and no
\* error raised to the caller.
C13_CollisionAbandons ==
    [][\A t \in Callers :
          (/\ th[t].pc = "o_create"
           /\ th[t].trial \in DOMAIN ledger_files
           /\ th'[t] # th[t])
          => /\ th'[t].pc = "o_create"
             /\ th'[t].trial # th[t].trial
             /\ th'[t].exc = "none"]_vars

\* C14: instance_ledger_name is remembered only when the allocation's
\* git_transaction succeeded: after an open_instance_ledger that returned with
\* a name, the include line of that name is in the remote repository; after
\* one that raised from an engine without a name, the name is still None.
C14_NameOnlyOnSuccess ==
    \A t \in Callers :
       LET r == th[t]
           e == r.self
       IN  (Done(t, "open_instance_ledger") /\ r.snap.name = None) =>
              /\ r.exc = "none" =>
                    /\ instance_ledger_name[e] # None
                    /\ instance_ledger_name[e] \in PublishedIncludes
              /\ r.exc # "none" => instance_ledger_name[e] = None

\* C15: apply_txn on a transaction whose postings do not sum to zero in some
\* currency ends at once with AssertionError: nothing is written to the
\* instance ledger or its handle, nothing is staged, HEAD is not moved and no
\* balance changes.
C15_ImbalanceRejectedFirst ==
    [][\A t \in Callers :
          (/\ th[t].pc = "idle"
           /\ th'[t].pc # "idle"
           /\ th'[t].op = "apply_txn"
           /\ ~is_small(compute_residual(th'[t].txn.postings)))
          => /\ th'[t].pc = "done"
             /\ th'[t].exc = "AssertionError"
             /\ UNCHANGED << repoVars, selfVars, dirVars, folded >>]_vars

\* An imbalanced transaction has been refused on a loaded engine whose
\* instance ledger is open.
C15_Witness ==
    \E t \in Callers :
       /\ Raised(t, "apply_txn")
       /\ th[t].exc = "AssertionError"
       /\ ~is_small(compute_residual(th[t].txn.postings))
       /\ accounts_raw[th[t].self] # 0
       /\ instance_ledger[th[t].self].open

\* C16: the pull of pull_changes and the hard reset of git_transaction are
\* made with the instance ledger handle closed and set to None, so in no
\* state is a handle open on a file whose content was changed under it.
C16_NoStaleHandle ==
    \A e \in Engines : ~(instance_ledger[e].open /\ instance_ledger[e].stale)

\* Whether the text of a transaction is in the instance ledger of the engine:
\* in its file, or in the buffer of a handle that will still reach the file.
InInstanceLedger(e, id) ==
    LET name == instance_ledger_name[e]
        h == instance_ledger[e]
    IN  \/ /\ name \in DOMAIN ledger_files
           /\ \E k \in DOMAIN ledger_files[name] : ledger_files[name][k].id = id
        \/ /\ h.open /\ ~h.stale
           /\ \E k \in DOMAIN h.buf : h.buf[k].id = id

\* C17: a rollback discards only the changes of the failing block: when an
\* apply_txn has failed at its push and has been rolled back, every
\* transaction folded into the balances by an earlier apply_txn still has its
\* text in the local instance ledger and in the remote repository.
C17_RollbackKeepsEarlier ==
    \A t \in Callers :
       (Raised(t, "apply_txn") /\ th[t].at = "push") =>
          \A id \in folded :
             /\ InInstanceLedger(th[t].self, id)
             /\ id \in PublishedTxns

\* C18: the swap at the end of load_data is atomic for readers that take no
\* lock: in every state the three fields of an engine, read together, come
\* from one and the same load.
C18_AtomicSwap ==
    \A e \in Engines :
       /\ accounts_raw[e] = accounts[e]
       /\ accounts[e] = products[e]

\* C19: apply_txn folds a transaction into the balances only if its text was
\* appended to the engine's instance ledger; a call made while
\* instance_ledger is None folds nothing.
C19_FoldOnlyIfLogged ==
    \A t \in Callers :
       (Done(t, "apply_txn") /\ th[t].txn.id \in folded) =>
          InInstanceLedger(th[t].self, th[t].txn.id)

\* The balance of an account that the ledger of the working tree gives: the
\* included files, and what an open handle still holds for its file.
LedgerBalance(e, account, cur) ==
    LET names == Included(head, dynamic) \cap DOMAIN ledger_files
        name == instance_ledger_name[e]
        h == instance_ledger[e]
    IN  LedgerSum(ledger_files, names, account, cur)
          + (IF h.open /\ ~h.stale /\ name \in names
             THEN TextSum(h.buf, account, cur) ELSE 0)

\* C20: once an apply_txn of one thread and a load_data or pull_changes of
\* another thread of the process have both returned, the balance of every
\* loaded account equals the balance its ledger gives, so the postings of the
\* transaction are counted exactly once.
C20_NoDoubleCounting ==
    LET e == th[1].self
        g == accounts_raw[e]
    IN  (/\ Returned(1, "apply_txn")
         /\ Returned(2, "load_data") \/ Returned(2, "pull_changes")
         /\ g # 0)
        => \A a \in DOMAIN objs[g].members : \A c \in Currencies :
              objs[g].members[a][c] = LedgerBalance(e, a, c)

====
